---- MODULE Spec2Model ----
(***************************************************************************)
(* Thorlabs MCLS1 laser source shim: the API wrapper (MCLS1_Api.cpp) over  *)
(* the vendor UART library, and the console demo (JOST_MCLS1.cpp).         *)
(*                                                                         *)
(* C strings are sequences of one-character strings.  The vendor library   *)
(* is the environment: what it returns is chosen nondeterministically.     *)
(*   Spec      the wrapper driven by an arbitrary client                   *)
(*   DemoSpec  one run of _tmain                                           *)
(***************************************************************************)
EXTENDS Integers, Sequences, FiniteSets, TLC

VARIABLES
    build,        \* "debug" (assert and CRT buffer fill active) or "release"
    dllLoaded,    \* environment: LoadLibrary succeeds
    dllExports,   \* environment: the symbols GetProcAddress resolves
    fnUART,       \* the five global function pointers: TRUE = non-NULL
    openHandles,  \* vendor library: handles opened and not yet closed
    pc,           \* position of the running code
    last,         \* Spec: the most recent wrapper call and its outcome
    argv,         \* DemoSpec: command-line arguments after argv[0]
    channel, current, str, ret, hdl,   \* DemoSpec: locals of _tmain
    cinFail,      \* DemoSpec: std::cin has hit end of input
    iter,         \* DemoSpec: loop iterations run
    log,          \* DemoSpec: vendor calls made so far, in order
    exitCode      \* DemoSpec: process exit code once it has ended

vars == <<build, dllLoaded, dllExports, fnUART, openHandles, pc, last, argv,
          channel, current, str, ret, hdl, cinFail, iter, log, exitCode>>

demoVars == <<argv, channel, current, str, ret, hdl, cinFail, iter, log, exitCode>>

-----------------------------------------------------------------------------
(* Bounds *)
MaxIter == 3      \* iterations of the demo's console loop
MaxTail == 2      \* characters of a vendor reply after the echoed text

(* Program constants *)
MAXLEN == 255
WRITE_BUFFER_SIZE == 32
TEMP_HI == 30
TEMP_LO == 20
CBR_115200 == 115200
OPEN_TIMEOUT == 3

-----------------------------------------------------------------------------
(* Characters and C strings *)
NUL == "NUL"      \* the byte 0
FILL == "FE"      \* the byte 0xFE the debug CRT fills buffer tails with
CR == "\r"

Digits == {"0", "1", "2", "3", "4", "5", "6", "7", "8", "9"}
Letters == {"a", "A", "q", "Q", "u", "U", "i", "I", "t", "T"}
Spaces == {" ", "\t", "\n", "\f", "\r"}          \* isspace()
Char == Digits \cup Letters \cup Spaces \cup {".", "'", ",", "-", "=", "?", ">"}

DigitChar(d) == <<"0", "1", "2", "3", "4", "5", "6", "7", "8", "9">>[d + 1]
DigitVal(ch) == CHOOSE d \in 0..9 : DigitChar(d) = ch

RECURSIVE Fill(_, _)
Fill(ch, n) == IF n <= 0 THEN <<>> ELSE <<ch>> \o Fill(ch, n - 1)

RECURSIVE CStr(_)
\* the C string held in a buffer: the bytes before the first NUL
CStr(buf) == IF buf = <<>> \/ Head(buf) = NUL THEN <<>>
             ELSE <<Head(buf)>> \o CStr(Tail(buf))

\* char cmd[N] = "literal": the literal, then zeros
InitBuf(s, size) == s \o Fill(NUL, size - Len(s))

-----------------------------------------------------------------------------
(* Formatting: sprintf_s with "%d" and "%f" *)
RECURSIVE DecNat(_)
DecNat(n) == IF n < 10 THEN <<DigitChar(n)>>
             ELSE DecNat(n \div 10) \o <<DigitChar(n % 10)>>

\* "%d"
FmtD(n) == IF n < 0 THEN <<"-">> \o DecNat(-n) ELSE DecNat(n)

\* A float holding a whole number, as sign and magnitude hi * 10^9 + lo
\* (magnitudes go beyond the model checker's integers).
Flt(neg, hi, lo) == [neg |-> neg, hi |-> hi, lo |-> lo]
FltOfInt(n) == IF n < 0 THEN Flt(TRUE, 0, -n) ELSE Flt(FALSE, 0, n)
\* comparisons with a small integer n (|n| < 10^9)
FltGE(f, n) == IF f.neg THEN f.hi = 0 /\ -f.lo >= n ELSE f.hi > 0 \/ f.lo >= n
FltLE(f, n) == IF f.neg THEN f.hi > 0 \/ -f.lo <= n ELSE f.hi = 0 /\ f.lo <= n

Pad9(n) == LET d == DecNat(n) IN Fill("0", 9 - Len(d)) \o d

\* "%f": the integer part in full, a point, six decimals
FmtF(f) == (IF f.neg THEN <<"-">> ELSE <<>>)
           \o (IF f.hi = 0 THEN DecNat(f.lo) ELSE DecNat(f.hi) \o Pad9(f.lo))
           \o <<".", "0", "0", "0", "0", "0", "0">>

\* sprintf_s(buf, size, ...) producing text s: the text, its terminator and,
\* in a debug build, the fill pattern in the rest of the buffer.  Text that
\* does not fit invokes the invalid-parameter handler, which ends the process.
sprintf_s(size, s) ==
    IF Len(s) + 1 > size THEN [ok |-> FALSE, buf |-> <<>>]
    ELSE [ok |-> TRUE,
          buf |-> s \o <<NUL>>
                  \o Fill(IF build = "debug" THEN FILL ELSE NUL, size - Len(s) - 1)]

-----------------------------------------------------------------------------
(* Results of a wrapper call *)
Aborted(why) == [ok |-> FALSE, why |-> why, calls |-> <<>>, ret |-> 0]
Returned(calls, r) == [ok |-> TRUE, why |-> "", calls |-> calls, ret |-> r]

VSet(h, c, var) == [fn |-> "set", hdl |-> h, c |-> c, var |-> var]
VGet(h, c) == [fn |-> "get", hdl |-> h, c |-> c]
VList(var) == [fn |-> "list", var |-> var]
VOpen(port, nBaud, timeout) == [fn |-> "open", port |-> port, nBaud |-> nBaud, timeout |-> timeout]
VClose(h) == [fn |-> "close", hdl |-> h]

\* assert(e): active in a debug build only
AssertFails(e) == build = "debug" /\ ~e

\* the tail shared by the setters: format into cmd, call set, return its status
SetCommand(h, text, st) ==
    LET cmd == sprintf_s(WRITE_BUFFER_SIZE, text) IN
    IF ~cmd.ok THEN Aborted("invalid_parameter")
    ELSE Returned(<<VSet(h, cmd.buf, WRITE_BUFFER_SIZE)>>, st)

fnMCLS1_DLL_SetActiveChannel(h, n, st) ==
    IF AssertFails(n >= 1 /\ n <= 4) THEN Aborted("assert")
    ELSE SetCommand(h, <<"c", "h", "a", "n", "n", "e", "l", "=">> \o FmtD(n) \o <<CR>>, st)

fnMCLS1_DLL_SetTargeTemperature(h, n, st) ==
    IF AssertFails(FltGE(n, TEMP_LO) /\ FltLE(n, TEMP_HI)) THEN Aborted("assert")
    ELSE SetCommand(h, <<"t", "a", "r", "g", "e", "t", "=">> \o FmtF(n) \o <<CR>>, st)

fnMCLS1_DLL_SetCurrent(h, n, st) ==
    SetCommand(h, <<"c", "u", "r", "r", "e", "n", "t", "=">> \o FmtF(n) \o <<CR>>, st)

\* variant: the vendor status translated to 0 / -1 instead of passed through
SetEnable_TranslatedStatus(h, n, st) ==
    IF AssertFails(n >= 0 /\ n <= 1) THEN Aborted("assert")
    ELSE SetCommand(h, <<"e", "n", "a", "b", "l", "e", "=">> \o FmtD(n) \o <<CR>>,
                    IF st = 0 THEN 0 ELSE -1)

fnMCLS1_DLL_SetEnable(h, n, st) ==
    IF AssertFails(n >= 0 /\ n <= 1) THEN Aborted("assert")
    ELSE SetCommand(h, <<"e", "n", "a", "b", "l", "e", "=">> \o FmtD(n) \o <<CR>>, st)

\* variant: the command text of SetEnable pasted into SetSystemEnable
SetSystemEnable_EnableText(h, n, st) ==
    IF AssertFails(n >= 0 /\ n <= 1) THEN Aborted("assert")
    ELSE SetCommand(h, <<"e", "n", "a", "b", "l", "e", "=">> \o FmtD(n) \o <<CR>>, st)

fnMCLS1_DLL_SetSystemEnable(h, n, st) ==
    IF AssertFails(n >= 0 /\ n <= 1) THEN Aborted("assert")
    ELSE SetCommand(h, <<"s", "y", "s", "t", "e", "m", "=">> \o FmtD(n) \o <<CR>>, st)

-----------------------------------------------------------------------------
(* Parsing: sscanf_s with a format of literal text and one %[...] scanset *)
RECURSIVE SkipSpace(_, _)
SkipSpace(in, i) == IF i <= Len(in) /\ in[i] \in Spaces THEN SkipSpace(in, i + 1) ELSE i

\* variant: a white-space character of the format matches only itself
RECURSIVE MatchLit_Exact(_, _, _, _)
MatchLit_Exact(in, i, lit, j) ==
    IF j > Len(lit) THEN i
    ELSE IF i <= Len(in) /\ in[i] = lit[j] THEN MatchLit_Exact(in, i + 1, lit, j + 1)
    ELSE 0

\* Match the format's literal text against the input from position i: a
\* white-space character of the format matches any run of white space in the
\* input, none included; any other character matches itself.  The position
\* after the match, or 0 when the input does not match.
RECURSIVE MatchLit(_, _, _, _)
MatchLit(in, i, lit, j) ==
    IF j > Len(lit) THEN i
    ELSE IF lit[j] \in Spaces THEN MatchLit(in, SkipSpace(in, i), lit, j + 1)
    ELSE IF i <= Len(in) /\ in[i] = lit[j] THEN MatchLit(in, i + 1, lit, j + 1)
    ELSE 0

\* %[set]: the longest run of characters of the set from position i
RECURSIVE ScanSet(_, _, _)
ScanSet(in, i, set) == IF i <= Len(in) /\ in[i] \in set
                       THEN <<in[i]>> \o ScanSet(in, i + 1, set) ELSE <<>>

\* sscanf_s(in, lit "%[set]", c, size): the string left in c and the number
\* of bytes of c written.  A debug build fills the rest of the size bytes.
sscanf_s(in, lit, set, c, size) ==
    LET p == MatchLit(in, 1, lit, 1)
        run == IF p = 0 THEN <<>> ELSE ScanSet(in, p, set)
    IN  IF run = <<>> THEN [c |-> c, written |-> 0]
        ELSE IF Len(run) + 1 > size THEN [c |-> <<>>, written |-> 1]
        ELSE [c |-> run,
              written |-> IF build = "debug" THEN size ELSE Len(run) + 1]

Got(calls, r, sc) ==
    [ok |-> TRUE, why |-> "", calls |-> calls, ret |-> r, c |-> sc.c, written |-> sc.written]

\* scansets of the getters
Set09 == Digits                                  \* %[0-9]
Set09Dot == Digits \cup {"'", "."}               \* %[0-9'.']
SetId == Digits \cup Letters \cup {" ", "."}     \* %[0-9a-zA-Z .]
SetNotComma == Char \ {","}                      \* %[^,]

\* In the getters below: c and limit are the caller's, st and reply are what
\* the vendor get function returns and leaves in temp.
fnMCLS1_DLL_List(port, var, st, reply) ==
    Got(<<VList(MAXLEN)>>, st, sscanf_s(reply, <<>>, SetNotComma, port, MAXLEN))

fnMCLS1_DLL_GetActiveChannel(h, c, limit, st, reply) ==
    LET cmd == InitBuf(<<"c", "h", "a", "n", "n", "e", "l", "?", CR>>, WRITE_BUFFER_SIZE) IN
    Got(<<VGet(h, cmd)>>, st,
        sscanf_s(reply, <<"c", "h", "a", "n", "n", "e", "l", "?", CR>>, Set09, c, MAXLEN))

fnMCLS1_DLL_GetTargetTemperature(h, c, limit, st, reply) ==
    LET cmd == InitBuf(<<"t", "a", "r", "g", "e", "t", "?", CR>>, WRITE_BUFFER_SIZE) IN
    Got(<<VGet(h, cmd)>>, st,
        sscanf_s(reply, <<"t", "a", "r", "g", "e", "t", "?", CR>>, Set09Dot, c, MAXLEN))

\* variant: the query of GetTargetTemperature pasted into GetActualTemperature
GetActualTemperature_TargetQuery(h, c, limit, st, reply) ==
    LET cmd == InitBuf(<<"t", "a", "r", "g", "e", "t", "?", CR>>, WRITE_BUFFER_SIZE) IN
    Got(<<VGet(h, cmd)>>, st,
        sscanf_s(reply, <<"t", "e", "m", "p", "?", CR>>, Set09Dot, c, MAXLEN))

fnMCLS1_DLL_GetActualTemperature(h, c, limit, st, reply) ==
    LET cmd == InitBuf(<<"t", "e", "m", "p", "?", CR>>, WRITE_BUFFER_SIZE) IN
    Got(<<VGet(h, cmd)>>, st,
        sscanf_s(reply, <<"t", "e", "m", "p", "?", CR>>, Set09Dot, c, MAXLEN))

fnMCLS1_DLL_GetActualCurrent(h, c, limit, st, reply) ==
    LET cmd == InitBuf(<<"c", "u", "r", "r", "e", "n", "t", "?", CR>>, WRITE_BUFFER_SIZE) IN
    Got(<<VGet(h, cmd)>>, st,
        sscanf_s(reply, <<"c", "u", "r", "r", "e", "n", "t", "?", CR>>, Set09Dot, c, MAXLEN))

fnMCLS1_DLL_GetActualPower(h, c, limit, st, reply) ==
    LET cmd == InitBuf(<<"p", "o", "w", "e", "r", "?", CR>>, WRITE_BUFFER_SIZE) IN
    Got(<<VGet(h, cmd)>>, st,
        sscanf_s(reply, <<"p", "o", "w", "e", "r", "?", CR>>, Set09Dot, c, MAXLEN))

fnMCLS1_DLL_GetSystemEnable(h, c, limit, st, reply) ==
    LET cmd == InitBuf(<<"s", "y", "s", "t", "e", "m", "?", CR>>, WRITE_BUFFER_SIZE) IN
    Got(<<VGet(h, cmd)>>, st,
        sscanf_s(reply, <<"s", "y", "s", "t", "e", "m", "?", CR>>, Set09, c, MAXLEN))

fnMCLS1_DLL_GetEnable(h, c, limit, st, reply) ==
    LET cmd == InitBuf(<<"e", "n", "a", "b", "l", "e", "?", CR>>, WRITE_BUFFER_SIZE) IN
    Got(<<VGet(h, cmd)>>, st,
        sscanf_s(reply, <<"e", "n", "a", "b", "l", "e", "?", CR>>, Set09, c, MAXLEN))

fnMCLS1_DLL_GetStatus(h, c, limit, st, reply) ==
    LET cmd == InitBuf(<<"s", "t", "a", "t", "w", "o", "r", "d", "?", CR>>, WRITE_BUFFER_SIZE) IN
    Got(<<VGet(h, cmd)>>, st,
        sscanf_s(reply, <<"s", "t", "a", "t", "w", "o", "r", "d", "?", CR>>, Set09, c, MAXLEN))

fnMCLS1_DLL_GetID(h, c, limit, st, reply) ==
    LET cmd == InitBuf(<<"i", "d", "?", CR>>, WRITE_BUFFER_SIZE) IN
    Got(<<VGet(h, cmd)>>, st,
        sscanf_s(reply, <<"i", "d", "?", CR>>, SetId, c, MAXLEN))

-----------------------------------------------------------------------------
(* Library loading and the port *)
Symbols == {"open", "list", "close", "set", "get"}

\* variant: the null test leaves out the get pointer
init_GetUnchecked ==
    IF ~dllLoaded THEN [ret |-> -1, fn |-> fnUART]
    ELSE LET f == [s \in Symbols |-> s \in dllExports] IN
         [ret |-> IF ~f.open \/ ~f.list \/ ~f.close \/ ~f.set THEN -2 ELSE 0,
          fn |-> f]

\* the return value and the function pointers it leaves
init_MCLS1 ==
    IF ~dllLoaded THEN [ret |-> -1, fn |-> fnUART]
    ELSE LET f == [s \in Symbols |-> s \in dllExports] IN
         [ret |-> IF ~f.open \/ ~f.list \/ ~f.close \/ ~f.set \/ ~f.get THEN -2 ELSE 0,
          fn |-> f]

\* h is the handle the vendor open function returns
fnMCLS1_DLL_Open(port, h) == Returned(<<VOpen(port, CBR_115200, OPEN_TIMEOUT)>>, h)

fnMCLS1_DLL_Close(h, st) == Returned(<<VClose(h)>>, st)

\* the vendor library's open handles after open returned h / after close(h)
Opened(h) == IF h >= 0 THEN openHandles \cup {h} ELSE openHandles
Closed(h) == openHandles \ {h}

-----------------------------------------------------------------------------
(* The environment and the inputs a client can supply *)
SeqsUpTo(S, n) == UNION {[1..k -> S] : k \in 0..n}

Statuses == {0, 234, 235, 236, 237, -1, 1}     \* 0xEA..0xED and others
GetStatuses == {0, 234}
HandleArgs == {0, 5}
OpenResults == {-1, 0, 5}
ChannelArgs == -1..6
FlagArgs == -1..2
Huge == Flt(FALSE, 1152921504, 606846976)      \* 2^60, exact in a float
TempArgs == {FltOfInt(19), FltOfInt(20), FltOfInt(25), FltOfInt(30), FltOfInt(31)}
CurrentArgs == {FltOfInt(0), FltOfInt(50), FltOfInt(-5), Huge}
LimitArgs == {2, MAXLEN}
BufferArgs == {<<>>, <<"9">>}                  \* what the caller's c holds
COM3 == <<"C", "O", "M", "3">>

TailChars == {"4", ".", "'", "A", " ", CR}
Tails == SeqsUpTo(TailChars, MaxTail)
Stem(q) == SubSeq(q, 1, Len(q) - 1)            \* a query without its final CR
OtherQuery(q) == IF q = <<"i", "d", "?", CR>> THEN <<"t", "e", "m", "p", "?", CR>>
                 ELSE <<"i", "d", "?", CR>>
Replies(q) == {<<>>} \cup {e \o t : e \in {q, Stem(q), OtherQuery(q)}, t \in Tails}
ListReplies == SeqsUpTo({"A", "3", ",", " "}, MaxTail)

EnvInit ==
    /\ build \in {"debug", "release"}
    /\ dllLoaded \in BOOLEAN
    /\ dllExports \in SUBSET Symbols
    /\ (~dllLoaded => dllExports = {})
    /\ fnUART = [s \in Symbols |-> FALSE]
    /\ openHandles = {}

DemoIdle ==
    /\ argv = <<>> /\ channel = 0 /\ current = FltOfInt(0) /\ str = <<>>
    /\ ret = 0 /\ hdl = -1 /\ cinFail = FALSE /\ iter = 0 /\ log = <<>>
    /\ exitCode = -1

-----------------------------------------------------------------------------
(* Spec: a client calling the wrapper.  The client calls init_MCLS1 first  *)
(* and goes on only when it returned 0 (MCLS1_Api.h: negative = failed).   *)
Call(op, h, arg, c0, limit, st, reply, res) ==
    [op |-> op, hdl |-> h, arg |-> arg, c0 |-> c0, limit |-> limit, st |-> st,
     reply |-> reply, res |-> res]

After(res) == IF res.ok THEN "returned" ELSE "aborted"
NoCall == Call("none", 0, 0, <<>>, 0, 0, <<>>, Returned(<<>>, 0))

Init ==
    /\ EnvInit /\ DemoIdle
    /\ pc = "uninit"
    /\ last = NoCall

ApiInit ==
    /\ pc = "uninit"
    /\ LET r == init_MCLS1 IN
        /\ fnUART' = r.fn
        /\ last' = Call("init", 0, 0, <<>>, 0, 0, <<>>, Returned(<<>>, r.ret))
        /\ pc' = IF r.ret = 0 THEN "returned" ELSE "failed"
    /\ UNCHANGED <<build, dllLoaded, dllExports, openHandles, demoVars>>

ApiList ==
    /\ pc = "ready"
    /\ \E c0 \in BufferArgs, var \in LimitArgs, st \in {-1, 0, 2}, reply \in ListReplies :
        LET res == fnMCLS1_DLL_List(c0, var, st, reply) IN
        /\ last' = Call("List", 0, 0, c0, var, st, reply, res)
        /\ pc' = After(res)
    /\ UNCHANGED <<build, dllLoaded, dllExports, fnUART, openHandles, demoVars>>

\* the client takes the result and is free to make its next call
ApiReturn ==
    /\ pc = "returned"
    /\ pc' = "ready"
    /\ last' = NoCall
    /\ UNCHANGED <<build, dllLoaded, dllExports, fnUART, openHandles, demoVars>>

ApiSetActiveChannel ==
    /\ pc = "ready"
    /\ \E h \in HandleArgs, n \in ChannelArgs, st \in Statuses :
        LET res == fnMCLS1_DLL_SetActiveChannel(h, n, st) IN
        /\ last' = Call("SetActiveChannel", h, n, <<>>, 0, st, <<>>, res)
        /\ pc' = After(res)
    /\ UNCHANGED <<build, dllLoaded, dllExports, fnUART, openHandles, demoVars>>

ApiSetTargeTemperature ==
    /\ pc = "ready"
    /\ \E h \in HandleArgs, n \in TempArgs, st \in Statuses :
        LET res == fnMCLS1_DLL_SetTargeTemperature(h, n, st) IN
        /\ last' = Call("SetTargeTemperature", h, n, <<>>, 0, st, <<>>, res)
        /\ pc' = After(res)
    /\ UNCHANGED <<build, dllLoaded, dllExports, fnUART, openHandles, demoVars>>

ApiSetCurrent ==
    /\ pc = "ready"
    /\ \E h \in HandleArgs, n \in CurrentArgs, st \in Statuses :
        LET res == fnMCLS1_DLL_SetCurrent(h, n, st) IN
        /\ last' = Call("SetCurrent", h, n, <<>>, 0, st, <<>>, res)
        /\ pc' = After(res)
    /\ UNCHANGED <<build, dllLoaded, dllExports, fnUART, openHandles, demoVars>>

ApiSetEnable ==
    /\ pc = "ready"
    /\ \E h \in HandleArgs, n \in FlagArgs, st \in Statuses :
        LET res == fnMCLS1_DLL_SetEnable(h, n, st) IN
        /\ last' = Call("SetEnable", h, n, <<>>, 0, st, <<>>, res)
        /\ pc' = After(res)
    /\ UNCHANGED <<build, dllLoaded, dllExports, fnUART, openHandles, demoVars>>

ApiSetSystemEnable ==
    /\ pc = "ready"
    /\ \E h \in HandleArgs, n \in FlagArgs, st \in Statuses :
        LET res == fnMCLS1_DLL_SetSystemEnable(h, n, st) IN
        /\ last' = Call("SetSystemEnable", h, n, <<>>, 0, st, <<>>, res)
        /\ pc' = After(res)
    /\ UNCHANGED <<build, dllLoaded, dllExports, fnUART, openHandles, demoVars>>

\* The replies tried on a getter start with its own echoed query, with the
\* query less its carriage return, or with another getter's query.
ApiGetActiveChannel ==
    /\ pc = "ready"
    /\ \E h \in HandleArgs, c0 \in BufferArgs, limit \in LimitArgs, st \in GetStatuses,
          reply \in Replies(<<"c", "h", "a", "n", "n", "e", "l", "?", CR>>) :
        LET res == fnMCLS1_DLL_GetActiveChannel(h, c0, limit, st, reply) IN
        /\ last' = Call("GetActiveChannel", h, 0, c0, limit, st, reply, res)
        /\ pc' = After(res)
    /\ UNCHANGED <<build, dllLoaded, dllExports, fnUART, openHandles, demoVars>>

ApiGetTargetTemperature ==
    /\ pc = "ready"
    /\ \E h \in HandleArgs, c0 \in BufferArgs, limit \in LimitArgs, st \in GetStatuses,
          reply \in Replies(<<"t", "a", "r", "g", "e", "t", "?", CR>>) :
        LET res == fnMCLS1_DLL_GetTargetTemperature(h, c0, limit, st, reply) IN
        /\ last' = Call("GetTargetTemperature", h, 0, c0, limit, st, reply, res)
        /\ pc' = After(res)
    /\ UNCHANGED <<build, dllLoaded, dllExports, fnUART, openHandles, demoVars>>

ApiGetActualTemperature ==
    /\ pc = "ready"
    /\ \E h \in HandleArgs, c0 \in BufferArgs, limit \in LimitArgs, st \in GetStatuses,
          reply \in Replies(<<"t", "e", "m", "p", "?", CR>>) :
        LET res == fnMCLS1_DLL_GetActualTemperature(h, c0, limit, st, reply) IN
        /\ last' = Call("GetActualTemperature", h, 0, c0, limit, st, reply, res)
        /\ pc' = After(res)
    /\ UNCHANGED <<build, dllLoaded, dllExports, fnUART, openHandles, demoVars>>

ApiGetActualCurrent ==
    /\ pc = "ready"
    /\ \E h \in HandleArgs, c0 \in BufferArgs, limit \in LimitArgs, st \in GetStatuses,
          reply \in Replies(<<"c", "u", "r", "r", "e", "n", "t", "?", CR>>) :
        LET res == fnMCLS1_DLL_GetActualCurrent(h, c0, limit, st, reply) IN
        /\ last' = Call("GetActualCurrent", h, 0, c0, limit, st, reply, res)
        /\ pc' = After(res)
    /\ UNCHANGED <<build, dllLoaded, dllExports, fnUART, openHandles, demoVars>>

ApiGetActualPower ==
    /\ pc = "ready"
    /\ \E h \in HandleArgs, c0 \in BufferArgs, limit \in LimitArgs, st \in GetStatuses,
          reply \in Replies(<<"p", "o", "w", "e", "r", "?", CR>>) :
        LET res == fnMCLS1_DLL_GetActualPower(h, c0, limit, st, reply) IN
        /\ last' = Call("GetActualPower", h, 0, c0, limit, st, reply, res)
        /\ pc' = After(res)
    /\ UNCHANGED <<build, dllLoaded, dllExports, fnUART, openHandles, demoVars>>

ApiGetSystemEnable ==
    /\ pc = "ready"
    /\ \E h \in HandleArgs, c0 \in BufferArgs, limit \in LimitArgs, st \in GetStatuses,
          reply \in Replies(<<"s", "y", "s", "t", "e", "m", "?", CR>>) :
        LET res == fnMCLS1_DLL_GetSystemEnable(h, c0, limit, st, reply) IN
        /\ last' = Call("GetSystemEnable", h, 0, c0, limit, st, reply, res)
        /\ pc' = After(res)
    /\ UNCHANGED <<build, dllLoaded, dllExports, fnUART, openHandles, demoVars>>

ApiGetEnable ==
    /\ pc = "ready"
    /\ \E h \in HandleArgs, c0 \in BufferArgs, limit \in LimitArgs, st \in GetStatuses,
          reply \in Replies(<<"e", "n", "a", "b", "l", "e", "?", CR>>) :
        LET res == fnMCLS1_DLL_GetEnable(h, c0, limit, st, reply) IN
        /\ last' = Call("GetEnable", h, 0, c0, limit, st, reply, res)
        /\ pc' = After(res)
    /\ UNCHANGED <<build, dllLoaded, dllExports, fnUART, openHandles, demoVars>>

ApiGetStatus ==
    /\ pc = "ready"
    /\ \E h \in HandleArgs, c0 \in BufferArgs, limit \in LimitArgs, st \in GetStatuses,
          reply \in Replies(<<"s", "t", "a", "t", "w", "o", "r", "d", "?", CR>>) :
        LET res == fnMCLS1_DLL_GetStatus(h, c0, limit, st, reply) IN
        /\ last' = Call("GetStatus", h, 0, c0, limit, st, reply, res)
        /\ pc' = After(res)
    /\ UNCHANGED <<build, dllLoaded, dllExports, fnUART, openHandles, demoVars>>

ApiGetID ==
    /\ pc = "ready"
    /\ \E h \in HandleArgs, c0 \in BufferArgs, limit \in LimitArgs, st \in GetStatuses,
          reply \in Replies(<<"i", "d", "?", CR>>) :
        LET res == fnMCLS1_DLL_GetID(h, c0, limit, st, reply) IN
        /\ last' = Call("GetID", h, 0, c0, limit, st, reply, res)
        /\ pc' = After(res)
    /\ UNCHANGED <<build, dllLoaded, dllExports, fnUART, openHandles, demoVars>>

Next ==
    \/ ApiInit \/ ApiList
    \/ ApiSetActiveChannel \/ ApiSetTargeTemperature \/ ApiSetCurrent
    \/ ApiSetEnable \/ ApiSetSystemEnable
    \/ ApiGetActiveChannel \/ ApiGetTargetTemperature \/ ApiGetActualTemperature
    \/ ApiGetActualCurrent \/ ApiGetActualPower \/ ApiGetSystemEnable
    \/ ApiGetEnable \/ ApiGetStatus \/ ApiGetID
    \/ ApiReturn

Spec == Init /\ [][Next]_vars

-----------------------------------------------------------------------------
(* The console demo: conversions of text to numbers *)
RECURSIVE NatVal(_)
NatVal(d) == IF d = <<>> THEN 0
             ELSE NatVal(SubSeq(d, 1, Len(d) - 1)) * 10 + DigitVal(d[Len(d)])

\* the optional sign and the digits a number's text starts with, after
\* leading white space
NumPrefix(s) ==
    LET i == SkipSpace(s, 1)
        signed == i <= Len(s) /\ s[i] \in {"-", "+"}
    IN  [neg |-> i <= Len(s) /\ s[i] = "-",
         digits |-> ScanSet(s, IF signed THEN i + 1 ELSE i, Digits)]

\* atoi: 0 when the text starts with no number
atoi(s) == LET n == NumPrefix(s) IN
           IF n.neg THEN -NatVal(n.digits) ELSE NatVal(n.digits)

\* std::stof on text made of a sign, digits and other characters (no point,
\* exponent, hex, inf or nan; values exact in a float): the number the text
\* starts with; no number throws std::invalid_argument.
stof(s) ==
    LET n == NumPrefix(s)
        k == Len(n.digits)
    IN  IF k = 0 THEN [ok |-> FALSE, val |-> Flt(FALSE, 0, 0)]
        ELSE [ok |-> TRUE,
              val |-> IF k <= 9 THEN Flt(n.neg, 0, NatVal(n.digits))
                      ELSE Flt(n.neg, NatVal(SubSeq(n.digits, 1, k - 9)),
                               NatVal(SubSeq(n.digits, k - 8, k)))]

\* atof: 0.0 when the text starts with no number
atof(s) == LET r == stof(s) IN IF r.ok THEN r.val ELSE Flt(FALSE, 0, 0)

-----------------------------------------------------------------------------
(* The console demo: its two helpers and the control flow of _tmain *)

\* SetChannel(hdl, channel): st1, st2 are the statuses of the two set calls
SetChannel(h, ch, st1, st2) ==
    LET a == fnMCLS1_DLL_SetActiveChannel(h, ch, st1) IN
    IF ~a.ok THEN a
    ELSE LET b == fnMCLS1_DLL_SetEnable(h, 1, st2) IN
         IF ~b.ok THEN [b EXCEPT !.calls = a.calls]
         ELSE Returned(a.calls \o b.calls, b.ret)

\* SetCurrent(hdl, current): the command is sent twice
SetCurrent(h, cur, st1, st2) ==
    LET a == fnMCLS1_DLL_SetCurrent(h, cur, st1) IN
    IF ~a.ok THEN a
    ELSE LET b == fnMCLS1_DLL_SetCurrent(h, cur, st2) IN
         IF ~b.ok THEN [b EXCEPT !.calls = a.calls]
         ELSE Returned(a.calls \o b.calls, b.ret)

QUIT_LOWER == <<"q", "u", "i", "t">>
QUIT_TITLE == <<"Q", "u", "i", "t">>
QUIT_UPPER == <<"Q", "U", "I", "T">>

\* variant: the upper-case keyword is not tested
LoopCondition_NoUpper(s) == s # QUIT_LOWER /\ s # QUIT_TITLE

\* while(str != "quit" && str != "Quit" && str != "QUIT")
LoopCondition(s) == s # QUIT_LOWER /\ s # QUIT_TITLE /\ s # QUIT_UPPER

\* variant: a failed open is tried again
AfterOpen_Retry(h) == IF h < 0 THEN "open" ELSE "setchannel"

\* variant: the handle is not tested
AfterOpen_Unchecked(h) == "setchannel"

\* if(hdl < 0) return 0;
AfterOpen(h) == IF h < 0 THEN "done" ELSE "setchannel"

\* where a wrapper call that ends the process leaves it
Ended(why) == why
EndedPcs == {"assert", "invalid_parameter", "uncaught_exception"}

\* inputs of one run
ArgvChoices == {<<>>, <<<<"7">>>>,
                <<<<"3">>, <<"5", "0">>>>, <<<<"4">>, <<"5", "0">>>>,
                <<<<"7">>, <<"5", "0">>>>, <<<<"0">>, <<"q">>>>,
                <<<<"-", "1">>, <<"5", "0">>>>, <<<<"q">>, <<"7">>>>}
HugeText == <<"1", "1", "5", "2", "9", "2", "1", "5", "0", "4",
              "6", "0", "6", "8", "4", "6", "9", "7", "6">>      \* 2^60
Tokens == {QUIT_LOWER, QUIT_TITLE, QUIT_UPPER, <<"q", "u", "i", "T">>,
           <<"7", "5">>, <<"7", "Q">>, <<"-", "5">>, HugeText}
DemoStatuses == {0, 235}
DemoOpenResults == {-1, 0, 5}

envVars == <<build, dllLoaded, dllExports>>

DemoInit ==
    /\ EnvInit
    /\ last = NoCall
    /\ pc = "start"
    /\ argv \in ArgvChoices
    /\ channel = 0 /\ current = FltOfInt(0) /\ str = <<>>
    /\ ret = 0 /\ hdl = -1 /\ cinFail = FALSE /\ iter = 0 /\ log = <<>>
    /\ exitCode = -1

\* lines 41-51: the defaults, or the two arguments converted
DemoArgs ==
    /\ pc = "start"
    /\ IF Len(argv) + 1 # 3
       THEN channel' = 3 /\ current' = FltOfInt(50)
       ELSE channel' = atoi(argv[1]) /\ current' = atof(argv[2])
    /\ pc' = "init"
    /\ UNCHANGED <<envVars, fnUART, openHandles, last, argv, str, ret, hdl, cinFail,
                   iter, log, exitCode>>

\* lines 54-58
DemoInitLib ==
    /\ pc = "init"
    /\ LET r == init_MCLS1 IN
        /\ fnUART' = r.fn
        /\ IF r.ret # 0 THEN pc' = "done" /\ exitCode' = 0
           ELSE pc' = "list" /\ UNCHANGED exitCode
    /\ UNCHANGED <<envVars, openHandles, last, argv, channel, current, str, ret, hdl,
                   cinFail, iter, log>>

\* lines 59-60: the port list is read and not used
DemoList ==
    /\ pc = "list"
    /\ \E st \in {-1, 1}, reply \in {<<>>, COM3 \o <<",", "A">>} :
        log' = log \o fnMCLS1_DLL_List(<<>>, MAXLEN, st, reply).calls
    /\ pc' = "open"
    /\ UNCHANGED <<envVars, fnUART, openHandles, last, argv, channel, current, str, ret,
                   hdl, cinFail, iter, exitCode>>

\* lines 65-70
DemoOpen ==
    /\ pc = "open"
    /\ \E h \in DemoOpenResults :
        LET res == fnMCLS1_DLL_Open(COM3, h) IN
        /\ hdl' = res.ret
        /\ openHandles' = Opened(h)
        /\ log' = log \o <<[fn |-> "open", port |-> res.calls[1].port, ret |-> h]>>
        /\ pc' = AfterOpen(res.ret)
        /\ exitCode' = IF pc' = "done" THEN 0 ELSE exitCode
    /\ UNCHANGED <<envVars, fnUART, last, argv, channel, current, str, ret, cinFail, iter>>

\* line 74
DemoSetChannel ==
    /\ pc = "setchannel"
    /\ \E st1 \in DemoStatuses, st2 \in DemoStatuses :
        LET res == SetChannel(hdl, channel, st1, st2) IN
        /\ log' = log \o res.calls
        /\ IF res.ok THEN ret' = res.ret /\ pc' = "loop" /\ UNCHANGED exitCode
           ELSE pc' = Ended(res.why) /\ exitCode' = 3 /\ UNCHANGED ret
    /\ UNCHANGED <<envVars, fnUART, openHandles, last, argv, channel, current, str, hdl,
                   cinFail, iter>>

\* std::cin >> str: the next token, or nothing once the input has ended
ReadToken ==
    \/ /\ ~cinFail
       /\ \E tok \in Tokens : str' = tok
       /\ UNCHANGED cinFail
    \/ /\ cinFail' = TRUE
       /\ UNCHANGED str

\* lines 77-85: one pass of the loop
DemoLoop ==
    /\ pc = "loop"
    /\ LoopCondition(str)
    /\ iter < MaxIter
    /\ LET conv == IF str # <<>> THEN stof(str) ELSE [ok |-> TRUE, val |-> current] IN
       IF ~conv.ok
       THEN /\ pc' = Ended("uncaught_exception") /\ exitCode' = 3
            /\ UNCHANGED <<current, ret, log, str, cinFail, iter>>
       ELSE \E st1 \in DemoStatuses, st2 \in DemoStatuses :
            LET res == SetCurrent(hdl, conv.val, st1, st2) IN
            /\ current' = conv.val
            /\ log' = log \o res.calls
            /\ IF res.ok
               THEN /\ ret' = res.ret
                    /\ ReadToken
                    /\ iter' = iter + 1
                    /\ UNCHANGED <<pc, exitCode>>
               ELSE /\ pc' = Ended(res.why) /\ exitCode' = 3
                    /\ UNCHANGED <<ret, str, cinFail, iter>>
    /\ UNCHANGED <<envVars, fnUART, openHandles, last, argv, channel, hdl>>

\* lines 88-90: the loop has ended; disable the active channel
DemoDisable ==
    /\ pc = "loop"
    /\ ~LoopCondition(str)
    /\ \E st \in DemoStatuses :
        LET res == fnMCLS1_DLL_SetEnable(hdl, 0, st) IN
        /\ log' = log \o res.calls
        /\ IF res.ok THEN pc' = "close" /\ UNCHANGED exitCode
           ELSE pc' = Ended(res.why) /\ exitCode' = 3
    /\ UNCHANGED <<envVars, fnUART, openHandles, last, argv, channel, current, str, ret,
                   hdl, cinFail, iter>>

\* lines 93-94
DemoClose ==
    /\ pc = "close"
    /\ \E st \in {0, -1} :
        log' = log \o fnMCLS1_DLL_Close(hdl, st).calls
    /\ openHandles' = Closed(hdl)
    /\ pc' = "done"
    /\ exitCode' = 0
    /\ UNCHANGED <<envVars, fnUART, last, argv, channel, current, str, ret, hdl,
                   cinFail, iter>>

DemoNext ==
    \/ DemoArgs \/ DemoInitLib \/ DemoList \/ DemoOpen \/ DemoSetChannel
    \/ DemoLoop \/ DemoDisable \/ DemoClose

DemoSpec == DemoInit /\ [][DemoNext]_vars

-----------------------------------------------------------------------------
(* Claims about the wrapper, checked under Spec *)
SetterOps == {"SetActiveChannel", "SetTargeTemperature", "SetCurrent", "SetEnable",
              "SetSystemEnable"}
GetterOps == {"GetActiveChannel", "GetTargetTemperature", "GetActualTemperature",
              "GetActualCurrent", "GetActualPower", "GetSystemEnable", "GetEnable",
              "GetStatus", "GetID"}

\* The documented input ranges.  SetCurrent has none in the code; its header
\* defers to the laser's data sheet, taken here as magnitudes below 10^9 mA.
InRangeArg(op, a) ==
    CASE op = "SetActiveChannel" -> a \in 1..4
      [] op \in {"SetEnable", "SetSystemEnable"} -> a \in 0..1
      [] op = "SetTargeTemperature" -> FltGE(a, 20) /\ FltLE(a, 30)
      [] op = "SetCurrent" -> a.hi = 0

\* C1: every setter called with an in-range argument calls the vendor set
\* function exactly once, with the caller's handle, and returns exactly the
\* status that call returned, whatever the status is.
C1_SetterReturnsVendorStatus ==
    (last.op \in SetterOps /\ InRangeArg(last.op, last.arg)) =>
        /\ last.res.ok
        /\ Len(last.res.calls) = 1
        /\ last.res.calls[1].fn = "set"
        /\ last.res.calls[1].hdl = last.hdl
        /\ last.res.ret = last.st

C1_Witness ==
    /\ last.op = "SetEnable" /\ last.arg = 1 /\ last.hdl = 5
    /\ last.st = 236 /\ last.res.ret = 236 /\ Len(last.res.calls) = 1

\* the query each getter is to send
QueryText(op) ==
    CASE op = "GetActiveChannel" -> <<"c", "h", "a", "n", "n", "e", "l", "?", "\r">>
      [] op = "GetTargetTemperature" -> <<"t", "a", "r", "g", "e", "t", "?", "\r">>
      [] op = "GetActualTemperature" -> <<"t", "e", "m", "p", "?", "\r">>
      [] op = "GetActualCurrent" -> <<"c", "u", "r", "r", "e", "n", "t", "?", "\r">>
      [] op = "GetActualPower" -> <<"p", "o", "w", "e", "r", "?", "\r">>
      [] op = "GetSystemEnable" -> <<"s", "y", "s", "t", "e", "m", "?", "\r">>
      [] op = "GetEnable" -> <<"e", "n", "a", "b", "l", "e", "?", "\r">>
      [] op = "GetStatus" -> <<"s", "t", "a", "t", "w", "o", "r", "d", "?", "\r">>
      [] op = "GetID" -> <<"i", "d", "?", "\r">>

\* C2: every getter calls the vendor get function exactly once, with its own
\* fixed query string, and returns the vendor status unchanged, whether or
\* not the reply can be parsed.
C2_GetterSendsQueryReturnsStatus ==
    last.op \in GetterOps =>
        /\ last.res.ok
        /\ Len(last.res.calls) = 1
        /\ last.res.calls[1].fn = "get"
        /\ last.res.calls[1].hdl = last.hdl
        /\ CStr(last.res.calls[1].c) = QueryText(last.op)
        /\ last.res.ret = last.st

C2_Witness ==
    /\ last.op = "GetActualTemperature" /\ last.st = 234 /\ last.res.ret = 234
    /\ last.reply = <<>> /\ last.res.c = last.c0
    /\ CStr(last.res.calls[1].c) = <<"t", "e", "m", "p", "?", "\r">>

\* the parameter name of each integer-valued setter
ParamName(op) ==
    CASE op = "SetActiveChannel" -> <<"c", "h", "a", "n", "n", "e", "l">>
      [] op = "SetEnable" -> <<"e", "n", "a", "b", "l", "e">>
      [] op = "SetSystemEnable" -> <<"s", "y", "s", "t", "e", "m">>

\* C3: an integer-valued setter called with an in-range argument hands the
\* vendor set function a 32-byte buffer holding exactly the parameter name,
\* '=', the decimal digit of the value and one carriage return, and a
\* terminating zero byte after them.
C3_IntegerCommandText ==
    (last.op \in {"SetActiveChannel", "SetEnable", "SetSystemEnable"}
        /\ InRangeArg(last.op, last.arg)) =>
        LET buf == last.res.calls[1].c
            text == ParamName(last.op) \o <<"=", DigitChar(last.arg), "\r">>
        IN  /\ Len(buf) = 32
            /\ SubSeq(buf, 1, Len(text)) = text
            /\ buf[Len(text) + 1] = NUL

C3_Witness ==
    /\ last.op = "SetActiveChannel" /\ last.arg = 3
    /\ CStr(last.res.calls[1].c) = <<"c", "h", "a", "n", "n", "e", "l", "=", "3", "\r">>

\* C4: init_MCLS1 returns 0 exactly when the library loads and all five
\* functions resolve (and then every pointer is non-null); -1 when the
\* library does not load, and then no pointer is set; -2 when it loads and
\* at least one of the five symbols is missing.
C4_InitReturn ==
    last.op = "init" =>
        LET r == last.res.ret IN
        /\ r \in {0, -1, -2}
        /\ (r = 0) <=> (dllLoaded /\ dllExports = {"open", "list", "close", "set", "get"})
        /\ (r = 0) => \A s \in DOMAIN fnUART : fnUART[s]
        /\ ~dllLoaded => (r = -1 /\ \A s \in DOMAIN fnUART : ~fnUART[s])
        /\ (dllLoaded /\ \E s \in {"open", "list", "close", "set", "get"} : s \notin dllExports)
               => r = -2

C4_Witness ==
    /\ last.op = "init" /\ last.res.ret = -2
    /\ dllLoaded /\ dllExports = {"open", "list", "close", "set"}
    /\ fnUART.open /\ ~fnUART.get

\* C7: a getter, or fnMCLS1_DLL_List, never writes more bytes into the
\* caller's buffer, the terminating zero included, than the caller's limit.
C7_WritesWithinLimit ==
    last.op \in GetterOps \cup {"List"} => last.res.written <= last.limit

\* what each getter accepts after the echoed query
Accepted(op) ==
    CASE op \in {"GetActiveChannel", "GetSystemEnable", "GetEnable", "GetStatus"} -> Digits
      [] op \in {"GetTargetTemperature", "GetActualTemperature", "GetActualCurrent",
                 "GetActualPower"} -> Digits \cup {".", "'"}
      [] op = "GetID" -> Digits \cup Letters \cup {" ", "."}

StartsWith(r, q) == Len(r) >= Len(q) /\ SubSeq(r, 1, Len(q)) = q

\* the length of the longest run of characters of S in r from position p
RunLen(r, p, S) ==
    CHOOSE k \in 0..(Len(r) + 1 - p) :
        /\ \A i \in p..(p + k - 1) : r[i] \in S
        /\ (p + k > Len(r) \/ r[p + k] \notin S)

\* C10 as stated: c is left unchanged unless the reply begins with the
\* getter's echoed query, carriage return included, directly followed by an
\* accepted character; then c holds the longest run of accepted characters
\* directly after the echoed query.
C10_EchoedQueryThenRun ==
    last.op \in GetterOps =>
        LET q == QueryText(last.op)
            r == last.reply
            k == IF StartsWith(r, q) THEN RunLen(r, Len(q) + 1, Accepted(last.op)) ELSE 0
        IN  last.res.c = IF k = 0 THEN last.c0 ELSE SubSeq(r, Len(q) + 1, Len(q) + k)

\* C10 amended: c is left unchanged unless the reply begins with the query's
\* text up to its '?', followed by any run of white space (none included)
\* and then an accepted character; then c holds the longest run of accepted
\* characters that follows that white space.
C10_QueryThenSpaceThenRun ==
    last.op \in GetterOps =>
        LET q == QueryText(last.op)
            stem == SubSeq(q, 1, Len(q) - 1)
            r == last.reply
            p == IF StartsWith(r, stem)
                 THEN Len(stem) + 1 + RunLen(r, Len(stem) + 1, {" ", "\t", "\n", "\f", "\r"})
                 ELSE 0
            k == IF p = 0 THEN 0 ELSE RunLen(r, p, Accepted(last.op))
        IN  last.res.c = IF k = 0 THEN last.c0 ELSE SubSeq(r, p, p + k - 1)

C10_Witness ==
    /\ last.op = "GetID"
    /\ last.reply = <<"i", "d", "?", "\r", " ", "A">>
    /\ last.c0 = <<"9">>
    /\ last.res.c = <<"A">>

-----------------------------------------------------------------------------
(* Claims about the console demo, checked under DemoSpec *)
OpenCalls == {i \in DOMAIN log : log[i].fn = "open"}
CloseCalls == {i \in DOMAIN log : log[i].fn = "close"}
IsSet(e) == e.fn = "set"
SetCalls == SelectSeq(log, IsSet)
Text(e) == CStr(e.c)
QuitWords == {<<"q", "u", "i", "t">>, <<"Q", "u", "i", "t">>, <<"Q", "U", "I", "T">>}
InitSucceeds == dllLoaded /\ dllExports = {"open", "list", "close", "set", "get"}
ENABLE_0 == <<"e", "n", "a", "b", "l", "e", "=", "0", "\r">>
ENABLE_1 == <<"e", "n", "a", "b", "l", "e", "=", "1", "\r">>
CHANNEL_EQ == <<"c", "h", "a", "n", "n", "e", "l", "=">>
CURRENT_EQ == <<"c", "u", "r", "r", "e", "n", "t", "=">>

\* C5: a run of the demo holds at most one open handle at any time, and
\* calls the vendor open function at most once.
C5_AtMostOneOpenHandle ==
    /\ Cardinality(openHandles) <= 1
    /\ Cardinality(OpenCalls) <= 1

C5_Witness ==
    /\ pc = "loop" /\ iter >= 2 /\ hdl = 5 /\ openHandles = {5}
    /\ Cardinality(OpenCalls) = 1

\* C6: once the token read is "quit", "Quit" or "QUIT", the next thing the
\* demo does is send enable=0 on its handle (no further current command),
\* then it closes the handle and ends with exit code 0, and it does not stop
\* before that; no other token leads to the close.
C6_QuitDisablesThenCloses ==
    /\ [][(pc = "loop" /\ str \in QuitWords) =>
            /\ pc' = "close"
            /\ Len(log') = Len(log) + 1
            /\ SubSeq(log', 1, Len(log)) = log
            /\ log'[Len(log')].fn = "set"
            /\ log'[Len(log')].hdl = hdl
            /\ Text(log'[Len(log')]) = ENABLE_0]_vars
    /\ [][pc = "close" =>
            /\ pc' = "done"
            /\ exitCode' = 0
            /\ log' = Append(log, [fn |-> "close", hdl |-> hdl])]_vars
    /\ []((pc = "close" \/ CloseCalls # {}) => str \in QuitWords)
    /\ []((str \in QuitWords /\ pc \in {"loop", "close"}) => ENABLED DemoNext)

C6_Witness ==
    /\ pc = "done" /\ exitCode = 0 /\ str = <<"Q", "U", "I", "T">> /\ iter >= 2
    /\ Len(log) >= 2
    /\ log[Len(log)] = [fn |-> "close", hdl |-> hdl]
    /\ log[Len(log) - 1].fn = "set" /\ Text(log[Len(log) - 1]) = ENABLE_0

\* C8: in every run of the demo no range assertion of the wrapper fails, and
\* no channel= command carries a channel outside 1..4.
C8_RangeAssertionsHold ==
    /\ pc # "assert"
    /\ \A i \in DOMAIN log :
        (log[i].fn = "set" /\ StartsWith(Text(log[i]), CHANNEL_EQ)) =>
            \E n \in 1..4 : Text(log[i]) = CHANNEL_EQ \o <<DigitChar(n), "\r">>

\* C9: set and close calls happen only after init_MCLS1 returned 0 and open
\* returned a non-negative handle, and carry that handle; when init_MCLS1
\* fails no vendor function is called; close is called at most once and is
\* the last vendor call; the first two set commands are channel=<n> and
\* enable=1, and every current= command comes after them.
C9_VendorCallOrder ==
    /\ ~InitSucceeds => log = <<>>
    /\ \A i \in DOMAIN log :
        log[i].fn \in {"set", "close"} =>
            /\ InitSucceeds
            /\ \E j \in 1..(i - 1) :
                log[j].fn = "open" /\ log[j].ret >= 0 /\ log[i].hdl = log[j].ret
    /\ Cardinality(CloseCalls) <= 1
    /\ \A i \in CloseCalls : i = Len(log)
    /\ Len(SetCalls) >= 1 => Text(SetCalls[1]) = CHANNEL_EQ \o FmtD(channel) \o <<"\r">>
    /\ Len(SetCalls) >= 2 => Text(SetCalls[2]) = ENABLE_1
    /\ \A k \in DOMAIN SetCalls : StartsWith(Text(SetCalls[k]), CURRENT_EQ) => k >= 3

C9_Witness ==
    /\ pc = "done" /\ CloseCalls # {} /\ Len(SetCalls) >= 5 /\ hdl = 0
    /\ StartsWith(Text(SetCalls[3]), CURRENT_EQ)

\* C11: every handle the demo opens is closed, after an enable=0 command,
\* whatever the console input and the vendor statuses are.  Stated for the
\* runs whose channel argument is in 1..4 (the others are the subject of C8):
\* a run that has ended holds no open handle, a close is preceded by
\* enable=0, and once the input has ended the loop condition is false, so
\* that the disable-and-close steps come next (a failed read leaves str as it
\* was, so a loop condition that holds then holds for ever).
C11_OpenedHandleIsClosed ==
    channel \in 1..4 =>
        /\ pc \in {"done", "invalid_parameter", "uncaught_exception"} => openHandles = {}
        /\ \A i \in CloseCalls :
            i > 1 /\ log[i - 1].fn = "set" /\ Text(log[i - 1]) = ENABLE_0
        /\ (pc = "loop" /\ cinFail) => str \in QuitWords

====
